---- MODULE Spec2Model ----
(***************************************************************************)
(* AgroVision video surveillance pipeline: camera_handler.CameraHandler    *)
(* (the catalog of cv2.VideoCapture handles, get_frame) and the Flask      *)
(* side of it in app.py (video_feed.generate, the global alerts list,      *)
(* socketio.emit, get_alerts).                                             *)
(*                                                                         *)
(* Every HTTP viewer runs its own generate(handler, cam_id) loop in its    *)
(* own server thread; all loops call get_frame on the one shared           *)
(* CameraHandler.  A viewer's position in that loop is pc[v].              *)
(***************************************************************************)
EXTENDS Integers, Sequences, FiniteSets, TLC

\* ------------------------------------------------------------- bounds
MaxViewers == 2       \* concurrent /video_feed connections
NumFiles == 2         \* video files found in static/videos
FrameCount == 2       \* frames in each video file
MaxDets == 2          \* boxes the detector returns for one frame
MaxCycles == 3        \* get_frame calls while several viewers are connected
MaxPairCycles == 2    \* get_frame calls of the two viewers of InitPair
MaxDetectCycles == 1  \* get_frame calls of the one viewer of InitDetect
MaxShutdownCycles == 2 \* get_frame calls of the one viewer of InitShutdown
MaxLongCycles == 12  \* get_frame calls of the one viewer of InitLong
MaxFaults == 1        \* decode errors, detector exceptions, encode failures
MaxThrows == 1        \* exceptions raised in get_frame outside its inner try
MaxLookups == 4       \* calls of get_weather
MaxClock == 7200      \* seconds the clock runs

\* ------------------------------------------------- program constants
DisplayThreshold == 30   \* conf > 0.3, in hundredths
AlertThreshold == 50     \* conf > 0.5, in hundredths
RecentAlerts == 10       \* alerts[-10:]
MaxWidth == 1280         \* if width > 1280
CacheTime == 3600        \* 'cache_time': 3600

Viewers == 1..MaxViewers
CameraIds == 0..(NumFiles - 1)      \* enumerate(video_files)
RequestIds == 0..NumFiles           \* ids a client may ask for; NumFiles is unknown

Min(a, b) == IF a < b THEN a ELSE b
Max(a, b) == IF a > b THEN a ELSE b

\* self.agricultural_classes
agricultural_classes ==
    [person |-> "Human Detected", cow |-> "Cow Detected", sheep |-> "Sheep Detected",
     horse |-> "Horse Detected", dog |-> "Dog Detected", cat |-> "Cat Detected",
     bird |-> "Bird Detected", car |-> "Vehicle Detected", truck |-> "Truck Detected",
     bicycle |-> "Bicycle Detected", goat |-> "Goat Detected", pig |-> "Pig Detected"]

\* What the detector can report: class names of the model (one inside the
\* agricultural table, one outside it) and confidences around both thresholds.
ModelNames == {"person", "chair"}
Confidences == {30, 40, 50, 60}
Boxes == [cls : ModelNames, conf : Confidences]
RECURSIVE SeqsUpTo(_, _)
SeqsUpTo(S, n) ==
    IF n = 0 THEN {<<>>}
    ELSE LET shorter == SeqsUpTo(S, n - 1)
         IN  shorter \cup {Append(s, x) : s \in {t \in shorter : Len(t) = n - 1}, x \in S}
DetectorOutputs == SeqsUpTo(Boxes, MaxDets)

\* self.model: None, or the loaded detector, which is a function of the frame;
\* on one deployment's footage it is represented by the boxes it returns.
NoModel == <<[cls |-> "none", conf |-> -1]>>

\* No frame is followed through the resize.
NoShape == [width |-> 0, height |-> 0]

\* weather_cache['data'] is None, and the None get_weather returns
NoWeather == [lat |-> -1, lon |-> -1, at |-> -1]

\* weather_cache['last_updated'] is None
NeverUpdated == -1

\* get_weather has not been called.
NoLookup == [n |-> 0, lat |-> -1, lon |-> -1, outcome |-> "none", data |-> NoWeather,
             requested |-> FALSE]

\* (None, None) of get_frame
NoFrame == [pos |-> -1, overlay |-> "", detections |-> <<>>]
NoAlert == [type |-> "", message |-> "", camera_id |-> -1, confidence |-> -1, timestamp |-> -1]

VARIABLES
    cameras,     \* self.cameras: the registered camera ids
    position,    \* per camera: the frame its VideoCapture reads next
    model,       \* self.model
    alerts,      \* app.alerts
    emitted,     \* the new_alert events given to socketio.emit, in order
    pc,          \* per viewer: where its generate loop stands
    cam_id,      \* per viewer: the cam_id of its generate(handler, cam_id)
    frame,       \* per viewer: the frame of the cycle in progress
    alert,       \* per viewer: the alert of the cycle in progress
    raced,       \* per viewer: its call on the handle overlapped another thread's
    received,    \* per viewer: position of the last frame it was sent
    periodReads, \* per camera: first reads issued in the current 50 ms period
    doubleFail,  \* per camera: a read and its retry have both failed
    now,         \* the clock datetime.now() reads
    slots,       \* connections the server still accepts
    budget,      \* get_frame calls on registered cameras left
    faults,      \* faults left
    lastFault,   \* the kind of the last fault that occurred
    shutdown,    \* how far the exit of the process has come
    shape,       \* width and height of the frame followed through lines 139-155
    stage,       \* how far that frame has come
    throws,      \* exceptions still to be raised inside a try of the handler
    caps,        \* the state of each camera's cv2.VideoCapture handle
    weather_cache, \* weather_cache: 'data' and 'last_updated'
    clock,       \* time.time(), in seconds
    served       \* the last call of get_weather: its arguments and what it did

vars == <<cameras, position, model, alerts, emitted, pc, cam_id, frame, alert,
          raced, received, periodReads, doubleFail, now, slots, budget, faults,
          lastFault, shutdown, shape, stage, throws, caps, weather_cache, clock, served>>

weatherVars == <<weather_cache, clock, served>>

InFlight == {"read", "seek", "retry"}

\* --------------------------------------------------------------- Decoder
\* cap.read() on a handle whose next frame is p: the frame and the advanced
\* position, or (False, None) at the end of the file.
DecoderRead(p) ==
    IF p < FrameCount
    THEN [ret |-> TRUE, frame |-> p, pos |-> p + 1, fault |-> FALSE]
    ELSE [ret |-> FALSE, frame |-> -1, pos |-> p, fault |-> FALSE]

\* release() has called cap.release() on the handles.
Released == shutdown # "up"

\* Camera c's handle may be open: it was not released, or its cap.release()
\* raised.
MayBeOpen(c) == caps[c] \in {"open", "broken"}

\* Camera c's handle may be released: cap.release() was called on it.
MayBeReleased(c) == caps[c] \in {"released", "broken"}

\* What a cap.read() of camera c by viewer v can return.  cv2.VideoCapture is
\* not thread-safe: a read that overlapped another thread's call on the same
\* handle, or the release of the handle, may return any frame or fail, and
\* leave an open handle anywhere.  A read alone on a released handle returns
\* (False, None); a read alone on an open handle returns DecoderRead, or fails
\* on a decode error.
ReadOutcomes(v, c) ==
    IF raced[v]
    THEN LET left == {p \in {position[c]} : MayBeReleased(c)}
                     \cup {p \in 0..FrameCount : MayBeOpen(c)}
         IN  [ret : {TRUE}, frame : 0..(FrameCount - 1), pos : left, fault : {FALSE}]
             \cup [ret : {FALSE}, frame : {-1}, pos : left, fault : {FALSE}]
    ELSE {[ret |-> FALSE, frame |-> -1, pos |-> position[c], fault |-> FALSE] :
             x \in {y \in {1} : MayBeReleased(c)}}
         \cup {DecoderRead(position[c]) : x \in {y \in {1} : MayBeOpen(c)}}
         \cup {[ret |-> FALSE, frame |-> -1, pos |-> position[c], fault |-> TRUE] :
                  x \in {y \in {1} : MayBeOpen(c) /\ faults > 0 /\ position[c] < FrameCount}}

\* Advance on one decoder shared by all cameras.
AdvanceShared(c, p) == [d \in CameraIds |-> p]

\* cap = camera['cap']: a call on the handle of camera c leaves that handle at
\* p and no other handle is touched.
Advance(c, p) == [position EXCEPT ![c] = p]

\* ---------------------------------------------------------------- Resize
\* int(x * scale) with scale = 1280 / width, both in binary floating point: the
\* truncated quotient, or one less where the quotient is a whole number and
\* the scale is not representable exactly, so that the product may fall just
\* below it.
Scaled(x, width) ==
    LET exact == (x * MaxWidth) \div width
        odd[n \in 1..width] == IF n % 2 = 0 THEN odd[n \div 2] ELSE n
    IN  {exact} \cup {exact - 1 : y \in {z \in {1} : (x * MaxWidth) % width = 0
                                                     /\ odd[width] \notin {1, 5}}}

\* Resized keeping the frame as read whatever its width.
ResizedNever(s) == {s}

\* Lines 139-145: the shapes the frame can have after the resize; a shape with
\* a zero side stands for cv2.resize raising on an empty size.
Resized(s) ==
    IF s.width > MaxWidth
    THEN {[width |-> w, height |-> h] : w \in Scaled(s.width, s.width),
                                        h \in Scaled(s.height, s.width)}
    ELSE {s}

\* ------------------------------------------------------------- Detection
\* LabelFor without the override table.
LabelNoOverride(camera_id, cls) == cls

\* The per-camera label override, lines 167-174.
LabelFor(camera_id, cls) ==
    IF camera_id = 1 THEN "cow"
    ELSE IF camera_id = 2 THEN "goat"
    ELSE IF camera_id = 3 THEN "pig"
    ELSE cls

\* Displayed with an inclusive threshold.
DisplayedInclusive(conf) == conf >= DisplayThreshold

\* if conf > 0.3
Displayed(conf) == conf > DisplayThreshold

\* if label in self.agricultural_classes
IsAgricultural(label) == label \in DOMAIN agricultural_classes

\* Significant with an inclusive threshold.
SignificantInclusive(conf) == conf >= AlertThreshold

\* if conf > 0.5
Significant(conf) == conf > AlertThreshold

\* MakeAlert naming the first camera of the catalog, whichever was read.
MakeAlertFirstCamera(label, camera_id, conf, ts) ==
    [type |-> label \o "_detected", message |-> agricultural_classes[label],
     camera_id |-> 0, confidence |-> conf, timestamp |-> ts]

\* The alert dict of lines 187-193.
MakeAlert(label, camera_id, conf, ts) ==
    [type |-> label \o "_detected", message |-> agricultural_classes[label],
     camera_id |-> camera_id, confidence |-> conf, timestamp |-> ts]

\* The loop over the boxes, lines 159-210, from box i on: acc.detections is the
\* list of detections (each one is also drawn), acc.alert the one alert variable,
\* assigned again by every box that passes the alert threshold.
RECURSIVE ProcessBoxes(_, _, _, _, _)
ProcessBoxes(camera_id, boxes, i, acc, ts) ==
    IF i > Len(boxes) THEN acc
    ELSE LET box == boxes[i]
             label == LabelFor(camera_id, box.cls)
             step ==
                 IF Displayed(box.conf) /\ IsAgricultural(label)
                 THEN [detections |-> Append(acc.detections,
                                             [label |-> label, confidence |-> box.conf, box |-> i]),
                       alert |-> IF Significant(box.conf)
                                 THEN MakeAlert(label, camera_id, box.conf, ts)
                                 ELSE acc.alert]
                 ELSE acc
         IN  ProcessBoxes(camera_id, boxes, i + 1, step, ts)

\* Annotate without the overlay of the else branch at lines 222-225.
AnnotateUnmarked(camera_id, pos, ts, raised) ==
    IF model = NoModel \/ raised
    THEN [frame |-> [pos |-> pos, overlay |-> "", detections |-> <<>>], alert |-> NoAlert]
    ELSE LET out == ProcessBoxes(camera_id, model, 1, [detections |-> <<>>, alert |-> NoAlert], ts)
         IN  [frame |-> [pos |-> pos,
                         overlay |-> IF out.detections # <<>> THEN "Detections" ELSE "",
                         detections |-> out.detections],
              alert |-> out.alert]

\* Annotate without the inner try of lines 153-221: an exception of the detector
\* reaches the outer except of line 234 and the cycle returns (None, None).
AnnotateUnguarded(camera_id, pos, ts, raised) ==
    IF model = NoModel
    THEN [frame |-> [pos |-> pos, overlay |-> "Model Not Loaded", detections |-> <<>>],
          alert |-> NoAlert]
    ELSE IF raised
    THEN [frame |-> NoFrame, alert |-> NoAlert]
    ELSE LET out == ProcessBoxes(camera_id, model, 1, [detections |-> <<>>, alert |-> NoAlert], ts)
         IN  [frame |-> [pos |-> pos,
                         overlay |-> IF out.detections # <<>> THEN "Detections" ELSE "",
                         detections |-> out.detections],
              alert |-> out.alert]

\* Lines 151-225: the annotated frame and the alert of one cycle on the frame
\* read at pos.  raised: the detector call threw.
Annotate(camera_id, pos, ts, raised) ==
    IF model = NoModel
    THEN [frame |-> [pos |-> pos, overlay |-> "Model Not Loaded", detections |-> <<>>],
          alert |-> NoAlert]
    ELSE IF raised
    THEN [frame |-> [pos |-> pos, overlay |-> "Detection Error", detections |-> <<>>],
          alert |-> NoAlert]
    ELSE LET out == ProcessBoxes(camera_id, model, 1, [detections |-> <<>>, alert |-> NoAlert], ts)
         IN  [frame |-> [pos |-> pos,
                         overlay |-> IF out.detections # <<>> THEN "Detections" ELSE "",
                         detections |-> out.detections],
              alert |-> out.alert]

\* Returned handing the frame on whatever cv2.imencode answered.
ReturnedUnchecked(out, encoded) == [frame |-> out.frame, alert |-> out.alert]

\* Lines 227-232: the frame is encoded and returned with the alert; if
\* cv2.imencode fails the cycle returns (None, None).
Returned(out, encoded) ==
    IF encoded THEN [frame |-> out.frame, alert |-> out.alert]
    ELSE [frame |-> NoFrame, alert |-> NoAlert]

\* What the body of the try (lines 120-232) ends with: the values it returns,
\* or an exception, with nothing returned.
Body(ret, thrown) ==
    IF thrown THEN [frame |-> NoFrame, alert |-> NoAlert, raised |-> TRUE]
    ELSE [frame |-> ret.frame, alert |-> ret.alert, raised |-> FALSE]

\* Except without the handler: the exception leaves get_frame.
ExceptNone(body) == body

\* Lines 234-236: except Exception: return None, None.
Except(body) ==
    IF body.raised THEN [frame |-> NoFrame, alert |-> NoAlert, raised |-> FALSE] ELSE body

\* Lines 212-215: the number written on the frame as 'Detections: n', or -1
\* when the list is empty and nothing is written.
CountOverlay(detections) == IF detections # <<>> THEN Len(detections) ELSE -1

\* ----------------------------------------------------------- Alert store
\* StoreAppend as a ring buffer of RecentAlerts entries.
StoreAppendRing(store, a) ==
    IF Len(store) >= RecentAlerts THEN Append(Tail(store), a) ELSE Append(store, a)

\* alerts.append(alert)
StoreAppend(store, a) == Append(store, a)

\* LastN taking the slice from the front, store[:n].
FirstN(store, n) == SubSeq(store, 1, Min(Len(store), n))

\* alerts[-10:]
LastN(store, n) == SubSeq(store, Max(Len(store) - n, 0) + 1, Len(store))

\* GET /api/alerts
get_alerts == LastN(alerts, RecentAlerts)

\* ---------------------------------------------------------------- Viewers
\* Threads other than v inside a call on camera c's handle.
Others(v, c) == {w \in Viewers \ {v} : pc[w] \in InFlight /\ cam_id[w] = c}

\* v enters a call on camera c's handle: it and every thread already inside
\* one overlap.  Calls on a released handle return at once and share nothing.
Enter(v, c) ==
    raced' = [w \in Viewers |->
                 IF caps[c] = "released" THEN (w # v /\ raced[w])
                 ELSE IF w = v THEN Others(v, c) # {}
                 ELSE IF w \in Others(v, c) THEN TRUE ELSE raced[w]]

\* Registered taking every listed file for a camera, opened or not.
RegisteredListed(camera_id) == camera_id \in CameraIds

\* Registered with a Stalled state that stops a camera after a double failure.
RegisteredRunning(camera_id) == camera_id \in cameras /\ ~doubleFail[camera_id]

\* if camera_id not in self.cameras
Registered(camera_id) == camera_id \in cameras

\* GET /video_feed/<camera_id>: a new generate(camera_handler, int(camera_id)).
\* Viewers are numbered in the order they connect.
Connect(v, c) ==
    /\ shutdown = "up"
    /\ slots > 0
    /\ pc[v] = "none"
    /\ v = Cardinality({w \in Viewers : pc[w] # "none"}) + 1
    /\ pc' = [pc EXCEPT ![v] = "loop"]
    /\ cam_id' = [cam_id EXCEPT ![v] = c]
    /\ slots' = slots - 1
    /\ UNCHANGED <<weatherVars, caps, throws, shape, stage, shutdown, lastFault, cameras, position, model, alerts, emitted, frame, alert, raced,
                   received, periodReads, doubleFail, now, budget, faults>>

\* handler.get_frame(cam_id), up to the call of cap.read() at line 128, or to
\* the return of (None, None) at line 122 and the sleep of generate.
GetFrame(v) ==
    /\ pc[v] = "loop"
    /\ IF Registered(cam_id[v])
       THEN /\ budget > 0
            /\ budget' = budget - 1
            /\ pc' = [pc EXCEPT ![v] = "read"]
            /\ Enter(v, cam_id[v])
            /\ periodReads' = [periodReads EXCEPT ![cam_id[v]] = @ + 1]
       ELSE /\ pc' = [pc EXCEPT ![v] = "sleep"]
            /\ UNCHANGED <<raced, periodReads, budget>>
    /\ UNCHANGED <<weatherVars, caps, throws, shape, stage, shutdown, lastFault, cameras, position, model, alerts, emitted, cam_id,
                   frame, alert, received, doubleFail, now, slots, faults>>

\* cap.read() of line 128 returns; on failure cap.set(POS_FRAMES, 0) is called.
ReadReturns(v) ==
    /\ pc[v] = "read"
    /\ \E o \in ReadOutcomes(v, cam_id[v]) :
          /\ position' = Advance(cam_id[v], o.pos)
          /\ faults' = IF o.fault THEN faults - 1 ELSE faults
          /\ lastFault' = IF o.fault THEN "decode" ELSE lastFault
          /\ IF o.ret
             THEN /\ pc' = [pc EXCEPT ![v] = "process"]
                  /\ frame' = [frame EXCEPT ![v] = [NoFrame EXCEPT !.pos = o.frame]]
                  /\ raced' = [raced EXCEPT ![v] = FALSE]
             ELSE /\ pc' = [pc EXCEPT ![v] = "seek"]
                  /\ Enter(v, cam_id[v])
                  /\ UNCHANGED frame
    /\ UNCHANGED <<weatherVars, caps, throws, shape, stage, shutdown, cameras, model, alerts, emitted, cam_id, alert, received,
                   periodReads, doubleFail, now, slots, budget>>

\* Seek retrying the read without rewinding the handle.
SeekSkipped(v) ==
    /\ pc[v] = "seek"
    /\ pc' = [pc EXCEPT ![v] = "retry"]
    /\ Enter(v, cam_id[v])
    /\ UNCHANGED <<weatherVars, caps, throws, shape, stage, shutdown, lastFault, cameras, position, model, alerts, emitted, cam_id,
                   frame, alert, received, periodReads, doubleFail, now, slots, budget,
                   faults>>

\* cap.set(cv2.CAP_PROP_POS_FRAMES, 0) returns and the retry of line 134 is called.
Seek(v) ==
    /\ pc[v] = "seek"
    /\ \E p \in {q \in {position[cam_id[v]]} : MayBeReleased(cam_id[v])}
                \cup {q \in {0} : MayBeOpen(cam_id[v])} :
          position' = Advance(cam_id[v], p)
    /\ pc' = [pc EXCEPT ![v] = "retry"]
    /\ Enter(v, cam_id[v])
    /\ UNCHANGED <<weatherVars, caps, throws, shape, stage, shutdown, lastFault, cameras, model, alerts, emitted, cam_id, frame, alert, received,
                   periodReads, doubleFail, now, slots, budget, faults>>

\* cap.read() of line 134 returns; a second failure returns (None, None).
RetryReturns(v) ==
    /\ pc[v] = "retry"
    /\ \E o \in ReadOutcomes(v, cam_id[v]) :
          /\ position' = Advance(cam_id[v], o.pos)
          /\ faults' = IF o.fault THEN faults - 1 ELSE faults
          /\ lastFault' = IF o.fault THEN "decode" ELSE lastFault
          /\ IF o.ret
             THEN /\ pc' = [pc EXCEPT ![v] = "process"]
                  /\ frame' = [frame EXCEPT ![v] = [NoFrame EXCEPT !.pos = o.frame]]
                  /\ UNCHANGED doubleFail
             ELSE /\ pc' = [pc EXCEPT ![v] = "sleep"]
                  /\ doubleFail' = [doubleFail EXCEPT ![cam_id[v]] = TRUE]
                  /\ UNCHANGED frame
    /\ raced' = [raced EXCEPT ![v] = FALSE]
    /\ UNCHANGED <<weatherVars, caps, throws, shape, stage, shutdown, cameras, model, alerts, emitted, cam_id, alert, received,
                   periodReads, now, slots, budget>>

\* Lines 139-236 and the tests of generate at lines 744 and 746: resize,
\* detect, annotate, encode, return.  The detector call may throw, cv2.imencode
\* may fail, and the resize or the overlay of lines 139-149 may throw, which
\* ends the body before the detection.  An exception that left get_frame would
\* end generate, and the stream with it.
Process(v) ==
    /\ pc[v] = "process"
    /\ \E raised \in {FALSE} \cup {f \in {TRUE} : faults > 0 /\ model # NoModel},
          encoded \in {TRUE} \cup {f \in {FALSE} : faults > 0},
          thrown \in {FALSE} \cup {f \in {TRUE} : throws > 0} :
          LET out == Annotate(cam_id[v], frame[v].pos, now, raised)
              spent == (IF raised THEN 1 ELSE 0) + (IF encoded THEN 0 ELSE 1)
              ret == Except(Body(Returned(out, encoded), thrown))
          IN  /\ thrown => (~raised /\ encoded)
              /\ spent <= faults
              /\ faults' = faults - spent
              /\ throws' = IF thrown THEN throws - 1 ELSE throws
              /\ lastFault' = IF thrown THEN "exception"
                              ELSE IF ~encoded THEN "encode"
                              ELSE IF raised THEN "detector" ELSE lastFault
              /\ now' = IF ~thrown /\ out.alert # NoAlert THEN now + 1 ELSE now
              /\ frame' = [frame EXCEPT ![v] = ret.frame]
              /\ alert' = [alert EXCEPT ![v] = ret.alert]
              /\ pc' = [pc EXCEPT ![v] =
                           IF ret.raised THEN "closed"
                           ELSE IF ret.frame = NoFrame THEN "sleep"
                           ELSE IF ret.alert # NoAlert THEN "append" ELSE "yield"]
    /\ UNCHANGED <<weatherVars, caps, shape, stage, shutdown, cameras, position, model, alerts, emitted, cam_id, raced,
                   received, periodReads, doubleFail, slots, budget>>

\* alerts.append(alert)
AppendAlert(v) ==
    /\ pc[v] = "append"
    /\ alerts' = StoreAppend(alerts, alert[v])
    /\ pc' = [pc EXCEPT ![v] = "emit"]
    /\ UNCHANGED <<weatherVars, caps, throws, shape, stage, shutdown, lastFault, cameras, position, model, emitted, cam_id, frame, alert, raced,
                   received, periodReads, doubleFail, now, slots, budget, faults>>

\* socketio.emit('new_alert', alert)
EmitAlert(v) ==
    /\ pc[v] = "emit"
    /\ emitted' = Append(emitted, alert[v])
    /\ pc' = [pc EXCEPT ![v] = "yield"]
    /\ UNCHANGED <<weatherVars, caps, throws, shape, stage, shutdown, lastFault, cameras, position, model, alerts, cam_id, frame, alert, raced,
                   received, periodReads, doubleFail, now, slots, budget, faults>>

\* yield of the multipart chunk: the client receives the frame.
Yield(v) ==
    /\ pc[v] = "yield"
    /\ received' = [received EXCEPT ![v] = frame[v].pos]
    /\ frame' = [frame EXCEPT ![v] = NoFrame]
    /\ alert' = [alert EXCEPT ![v] = NoAlert]
    /\ pc' = [pc EXCEPT ![v] = "sleep"]
    /\ UNCHANGED <<weatherVars, caps, throws, shape, stage, shutdown, lastFault, cameras, position, model, alerts, emitted, cam_id, raced,
                   periodReads, doubleFail, now, slots, budget, faults>>

\* time.sleep(0.05) elapses: the next period begins for every sleeping loop.
Tick ==
    /\ \E v \in Viewers : pc[v] = "sleep"
    /\ pc' = [v \in Viewers |-> IF pc[v] = "sleep" THEN "loop" ELSE pc[v]]
    /\ periodReads' = [c \in CameraIds |-> 0]
    /\ UNCHANGED <<weatherVars, caps, throws, shape, stage, shutdown, lastFault, cameras, position, model, alerts, emitted, cam_id, frame, alert,
                   raced, received, doubleFail, now, slots, budget, faults>>

\* Disconnect ending every generate loop of the camera.
DisconnectCamera(v) ==
    /\ pc[v] = "yield"
    /\ pc' = [w \in Viewers |->
                 IF pc[w] # "none" /\ cam_id[w] = cam_id[v] THEN "closed" ELSE pc[w]]
    /\ frame' = [frame EXCEPT ![v] = NoFrame]
    /\ alert' = [alert EXCEPT ![v] = NoAlert]
    /\ UNCHANGED <<weatherVars, caps, throws, shape, stage, shutdown, lastFault, cameras, position, model, alerts, emitted, cam_id,
                   raced, received, periodReads, doubleFail, now, slots, budget, faults>>

\* The client of viewer v has gone: the write of the chunk fails and the server
\* closes the generator at its yield.
Disconnect(v) ==
    /\ pc[v] = "yield"
    /\ pc' = [pc EXCEPT ![v] = "closed"]
    /\ frame' = [frame EXCEPT ![v] = NoFrame]
    /\ alert' = [alert EXCEPT ![v] = NoAlert]
    /\ UNCHANGED <<weatherVars, caps, throws, shape, stage, shutdown, lastFault, cameras, position, model, alerts, emitted, cam_id,
                   raced, received, periodReads, doubleFail, now, slots, budget, faults>>

\* -------------------------------------------------- One frame's resize
\* Lines 139-145 on the frame read: the frame is resized if it is too wide; if
\* cv2.resize raises, the except of line 234 returns (None, None).
ResizeFrame ==
    /\ stage = "read"
    /\ \E s \in Resized(shape) :
          /\ shape' = s
          /\ stage' = IF s.width > 0 /\ s.height > 0 THEN "resized" ELSE "failed"
    /\ UNCHANGED <<weatherVars, caps, throws, cameras, position, model, alerts, emitted, pc, cam_id, frame, alert,
                   raced, received, periodReads, doubleFail, now, slots, budget, faults,
                   lastFault, shutdown>>

\* Line 155: results = self.model(frame, verbose=False) on the frame as the
\* resize left it.
DetectFrame ==
    /\ stage = "resized"
    /\ stage' = "detecting"
    /\ UNCHANGED <<weatherVars, caps, throws, cameras, position, model, alerts, emitted, pc, cam_id, frame, alert,
                   raced, received, periodReads, doubleFail, now, slots, budget, faults,
                   lastFault, shutdown, shape>>

\* ----------------------------------------------------------------- Weather
\* Lines 454-456: the cache holds data younger than cache_time.
CacheFresh(cache, current_time) ==
    /\ cache.data # NoWeather
    /\ cache.last_updated # NeverUpdated
    /\ current_time - cache.last_updated < CacheTime

\* What a lookup that is not answered from the cache can end with: the key is
\* missing (line 462), requests.get or the parsing raises (487), the response
\* is not a 200 (485), or it is a 200 (468).
LookupOutcomes == {"no_key", "exception", "status", "ok"}

\* CacheAfter storing the time of every response, whatever its status.
CacheAfterAnyResponse(cache, outcome, data, current_time) ==
    IF outcome = "ok" THEN [data |-> data, last_updated |-> current_time]
    ELSE IF outcome = "status" THEN [cache EXCEPT !.last_updated = current_time]
    ELSE cache

\* Lines 481-482: the cache after a lookup that was not answered from it.
CacheAfter(cache, outcome, data, current_time) ==
    IF outcome = "ok" THEN [data |-> data, last_updated |-> current_time] ELSE cache

\* get_weather(lat, lon), lines 451-489.  The data OpenWeatherMap returns for
\* a request is the weather of the requested place at the time of the request.
get_weather(lat, lon) ==
    /\ served.n < MaxLookups
    /\ IF CacheFresh(weather_cache, clock)
       THEN /\ served' = [n |-> served.n + 1, lat |-> lat, lon |-> lon, outcome |-> "cached",
                          data |-> weather_cache.data, requested |-> FALSE]
            /\ UNCHANGED weather_cache
       ELSE \E outcome \in LookupOutcomes :
               LET data == [lat |-> lat, lon |-> lon, at |-> clock]
               IN  /\ weather_cache' = CacheAfter(weather_cache, outcome, data, clock)
                   /\ served' = [n |-> served.n + 1, lat |-> lat, lon |-> lon,
                                 outcome |-> outcome,
                                 data |-> IF outcome = "ok" THEN data ELSE NoWeather,
                                 requested |-> outcome # "no_key"]
    /\ UNCHANGED <<clock, caps, throws, shape, stage, cameras, position, model, alerts, emitted,
                   pc, cam_id, frame, alert, raced, received, periodReads, doubleFail, now,
                   slots, budget, faults, lastFault, shutdown>>

\* Time passes between two requests.
Pass(seconds) ==
    /\ clock + seconds <= MaxClock
    /\ clock' = clock + seconds
    /\ UNCHANGED <<weather_cache, served, caps, throws, shape, stage, cameras, position, model,
                   alerts, emitted, pc, cam_id, frame, alert, raced, received, periodReads,
                   doubleFail, now, slots, budget, faults, lastFault, shutdown>>

\* ---------------------------------------------------------------- Shutdown
\* ReleaseCaps without the try of lines 241-245: the first cap.release() that
\* raises ends the loop, and the handles after it stay open.
ReleaseCapsUnguarded(handles, catalog, bad) ==
    [c \in CameraIds |->
        IF c \notin catalog THEN handles[c]
        ELSE IF c \in bad THEN "broken"
        ELSE IF \E b \in bad : b < c THEN handles[c]
        ELSE "released"]

\* The loop of lines 240-246 over the catalog: cap.release() on every handle,
\* each in a try of its own; bad are the handles whose cap.release() raises,
\* of which it is not known whether they were released.
ReleaseCaps(handles, catalog, bad) ==
    [c \in CameraIds |->
        IF c \notin catalog THEN handles[c]
        ELSE IF c \in bad THEN "broken"
        ELSE "released"]

\* socketio.run returns and the atexit hook calls camera_handler.release():
\* the loop of lines 240-246 releases every handle.  A read or seek in progress
\* on a handle overlaps its release.
Release ==
    /\ shutdown = "up"
    /\ shutdown' = "released"
    /\ \E bad \in {b \in SUBSET cameras : Cardinality(b) <= throws} :
          /\ caps' = ReleaseCaps(caps, cameras, bad)
          /\ throws' = throws - Cardinality(bad)
    /\ raced' = [v \in Viewers |-> raced[v] \/ pc[v] \in InFlight]
    /\ UNCHANGED <<weatherVars, shape, stage, lastFault, cameras, position, model, alerts, emitted, pc, cam_id, frame,
                   alert, received, periodReads, doubleFail, now, slots, budget, faults>>

\* self.cameras.clear()
Clear ==
    /\ shutdown = "released"
    /\ shutdown' = "cleared"
    /\ cameras' = {}
    /\ UNCHANGED <<weatherVars, caps, throws, shape, stage, lastFault, position, model, alerts, emitted, pc, cam_id, frame, alert,
                   raced, received, periodReads, doubleFail, now, slots, budget, faults>>

\* Exit ending the main thread alone: the generate loops run on.
ExitMainThread ==
    /\ shutdown = "cleared"
    /\ shutdown' = "exited"
    /\ UNCHANGED <<weatherVars, caps, throws, shape, stage, lastFault, cameras, position, model, alerts, emitted, pc, cam_id, frame,
                   alert, raced, received, periodReads, doubleFail, now, slots, budget, faults>>

\* The atexit hook has returned and the process ends, and with it the server
\* threads running the generate loops.
Exit ==
    /\ shutdown = "cleared"
    /\ shutdown' = "exited"
    /\ pc' = [v \in Viewers |-> IF pc[v] = "none" THEN "none" ELSE "closed"]
    /\ frame' = [v \in Viewers |-> NoFrame]
    /\ alert' = [v \in Viewers |-> NoAlert]
    /\ raced' = [v \in Viewers |-> FALSE]
    /\ UNCHANGED <<weatherVars, caps, throws, shape, stage, lastFault, cameras, position, model, alerts, emitted, cam_id, received,
                   periodReads, doubleFail, now, slots, budget, faults>>

\* ------------------------------------------------------- Specifications
\* initialize_videos: file i of the listing is registered under its index i if
\* its VideoCapture opens; opens[i] tells whether it does.
initialize_videos(opens) == {i \in CameraIds : opens[i]}

\* The state after CameraHandler() and the module-level code of app.py, for a
\* deployment whose catalog is one of catalogs, accepting n connections and
\* running c cycles with f faults, whose detector is one of models.
DeploymentWith(catalogs, n, c, f, models) ==
    /\ cameras \in catalogs
    /\ position = [i \in CameraIds |-> 0]
    /\ model \in models
    /\ alerts = <<>>
    /\ emitted = <<>>
    /\ pc = [v \in Viewers |-> "none"]
    /\ cam_id = [v \in Viewers |-> -1]
    /\ frame = [v \in Viewers |-> NoFrame]
    /\ alert = [v \in Viewers |-> NoAlert]
    /\ raced = [v \in Viewers |-> FALSE]
    /\ received = [v \in Viewers |-> -1]
    /\ periodReads = [i \in CameraIds |-> 0]
    /\ doubleFail = [i \in CameraIds |-> FALSE]
    /\ now = 0
    /\ slots = n
    /\ budget = c
    /\ faults = f
    /\ lastFault = "none"
    /\ shutdown = "up"
    /\ caps = [i \in CameraIds |-> IF i \in cameras THEN "open" ELSE "absent"]

\* No single frame is followed through the resize, and the weather cache is
\* as line 100 creates it.
Idle ==
    /\ shape = NoShape /\ stage = "idle"
    /\ weather_cache = [data |-> NoWeather, last_updated |-> NeverUpdated]
    /\ clock = 0
    /\ served = NoLookup

\* DeploymentWith when every file opens.
Deployment(n, c, f, models) ==
    /\ DeploymentWith({initialize_videos([i \in CameraIds |-> TRUE])}, n, c, f, models)
    /\ Idle
    /\ throws = 0

\* Several viewers at once, the detector absent or reporting one person.
Init == Deployment(MaxViewers, MaxCycles, MaxFaults,
                   {NoModel, <<[cls |-> "person", conf |-> 60]>>})

\* One viewer, every detector.
InitDetect == Deployment(1, MaxDetectCycles, MaxFaults, {NoModel} \cup DetectorOutputs)

\* One viewer streaming for a long time, the detector absent or raising an
\* alert on every frame.
InitLong == Deployment(1, MaxLongCycles, MaxFaults,
                       {NoModel, <<[cls |-> "person", conf |-> 60]>>})

\* Two viewers and no fault, the detector raising an alert on every frame.
InitPair == Deployment(2, MaxPairCycles, 0, {<<[cls |-> "person", conf |-> 60]>>})

\* One viewer streaming while the process is stopped.
InitShutdown == Deployment(1, MaxShutdownCycles, MaxFaults,
                           {NoModel, <<[cls |-> "person", conf |-> 60]>>})

\* Two viewers and one fault, the detector raising an alert on every frame.
InitIsolate == Deployment(2, MaxPairCycles, 1, {<<[cls |-> "person", conf |-> 60]>>})

\* Lines 63-75: the videos directory is missing or lists no video file, and
\* initialize_videos returns with self.cameras as __init__ left it.
NoVideos == {}

\* One viewer; the directory missing or empty, or any of its files failing to
\* open.
InitCatalog ==
    /\ DeploymentWith({NoVideos} \cup
                      {initialize_videos(opens) : opens \in [CameraIds -> BOOLEAN]},
                      1, MaxShutdownCycles, MaxFaults,
                      {NoModel, <<[cls |-> "person", conf |-> 60]>>})
    /\ Idle
    /\ throws = MaxThrows

\* Frame sizes around the width bound: narrower, at it, just above it, common
\* video sizes, widths whose scale is not exact, and frames a few pixels high.
Widths == {640, 1280, 1281, 1432, 1920, 2139, 2560, 3840}
Heights == {1, 2, 3, 480, 537, 720, 1080, 2160}
Shapes == [width : Widths, height : Heights]

\* One frame of any of these sizes has been read (line 128) by a handler whose
\* detector is loaded.
InitResize ==
    /\ DeploymentWith({initialize_videos([i \in CameraIds |-> TRUE])}, 0, 0, 0,
                      {<<[cls |-> "person", conf |-> 60]>>})
    /\ shape \in Shapes
    /\ stage = "read"
    /\ throws = 0
    /\ weather_cache = [data |-> NoWeather, last_updated |-> NeverUpdated]
    /\ clock = 0
    /\ served = NoLookup

NextResize == ResizeFrame \/ DetectFrame

\* The places weather is asked for, and the seconds between two requests:
\* sums of two of them fall just below, on and just above cache_time.
Latitudes == {12, 28}
Longitudes == {77}
Waits == {1799, 1800, 1801}

\* The application when it starts, serving weather requests only.
InitWeather == Deployment(0, 0, 0, {NoModel})

NextWeather ==
    \/ \E lat \in Latitudes, lon \in Longitudes : get_weather(lat, lon)
    \/ \E seconds \in Waits : Pass(seconds)

Next ==
    \/ \E v \in Viewers, c \in RequestIds : Connect(v, c)
    \/ \E v \in Viewers : GetFrame(v)
    \/ \E v \in Viewers : ReadReturns(v)
    \/ \E v \in Viewers : Seek(v)
    \/ \E v \in Viewers : RetryReturns(v)
    \/ \E v \in Viewers : Process(v)
    \/ \E v \in Viewers : AppendAlert(v)
    \/ \E v \in Viewers : EmitAlert(v)
    \/ \E v \in Viewers : Yield(v)
    \/ Tick
    \/ \E v \in Viewers : Disconnect(v)
    \/ Release
    \/ Clear
    \/ Exit

Spec == Init /\ [][Next]_vars
SpecDetect == InitDetect /\ [][Next]_vars
SpecLong == InitLong /\ [][Next]_vars
SpecPair == InitPair /\ [][Next]_vars
SpecIsolate == InitIsolate /\ [][Next]_vars
SpecCatalog == InitCatalog /\ [][Next]_vars
SpecResize == InitResize /\ [][NextResize]_vars
SpecWeather == InitWeather /\ [][NextWeather]_vars

\* release() runs to its end once called, and the process ends once its atexit
\* hooks have returned.
SpecShutdown == InitShutdown /\ [][Next]_vars /\ WF_vars(Clear) /\ WF_vars(Exit)

\* ------------------------------------------------------------------ Claims
Delivering(v) == pc[v] \in {"append", "emit", "yield"}

\* C1: in one 50 ms period a camera's decoder is read once (the retry after a
\* rewind aside), however many viewers are attached to the camera.
C1_OneReadPerCycle == \A c \in CameraIds : periodReads[c] <= 1

\* C2: at most one thread is inside a read or seek on a camera's handle.
C2_ExclusiveHandle ==
    \A c \in CameraIds : Cardinality({v \in Viewers : pc[v] \in InFlight /\ cam_id[v] = c}) <= 1

\* C3: each frame sent to a viewer is the successor of the frame sent to it
\* before, counting the first frame as the successor of the last when the source
\* restarts; stated for runs in which no decode, detector or encode fault occurred.
C3_InOrderNoGaps ==
    [][\A v \in Viewers :
          (pc[v] = "yield" /\ pc'[v] = "sleep" /\ received[v] # -1 /\ faults = MaxFaults)
              => frame[v].pos = (received[v] + 1) % FrameCount]_vars

C5_QueryReturnsRecent ==
    (shutdown # "exited" /\ \A v \in Viewers : pc[v] # "emit") =>
        LET k == Len(emitted)
            r == get_alerts
        IN  /\ Len(r) = Min(k, RecentAlerts)
            /\ \A i \in 1..Len(r) : r[i] = emitted[k - Len(r) + i]
            /\ (k = RecentAlerts + 1 => r = SubSeq(emitted, 2, RecentAlerts + 1))
            /\ \A i \in 1..(Len(r) - 1) : r[i].timestamp < r[i + 1].timestamp

C5_Witness ==
    /\ \A v \in Viewers : pc[v] # "emit"
    /\ Len(emitted) = RecentAlerts + 1
    /\ get_alerts = SubSeq(emitted, 2, RecentAlerts + 1)
    /\ get_alerts # emitted

\* The label the claims expect on camera c for detector class cls: the forced
\* label where an override is configured, the detector's own elsewhere.
Expected(c, cls) == CASE c = 1 -> "cow" [] c = 2 -> "goat" [] c = 3 -> "pig" [] OTHER -> cls

\* The cycle of viewer v ran the detector on its frame and is handing the frame on.
Detected(v) == Delivering(v) /\ model # NoModel /\ frame[v].overlay # "Detection Error"

\* Box i of the frame is followed by a box that raises an alert.
Superseded(c, i) ==
    \E j \in (i + 1)..Len(model) :
        model[j].conf > AlertThreshold /\ Expected(c, model[j].cls) \in DOMAIN agricultural_classes

Drawn(v, i) == \E j \in DOMAIN frame[v].detections : frame[v].detections[j].box = i

\* C7 as claimed: every detection above 0.3 and not above 0.5 is drawn and raises
\* no alert; 0.5 raises no alert and 0.3 is not drawn.
C7_DrawnNotAlerted ==
    \A v \in Viewers : Detected(v) =>
        /\ \A i \in DOMAIN model :
              /\ (model[i].conf > DisplayThreshold /\ model[i].conf <= AlertThreshold) => Drawn(v, i)
              /\ model[i].conf <= DisplayThreshold => ~Drawn(v, i)
        /\ alert[v] = NoAlert \/ alert[v].confidence > AlertThreshold

\* C7 as amended: the same for detections whose label after the override is in
\* the agricultural table; a detection whose label is outside it is not drawn.
C7_AgriculturalDrawnNotAlerted ==
    \A v \in Viewers : Detected(v) =>
        /\ \A i \in DOMAIN model :
              LET agri == Expected(cam_id[v], model[i].cls) \in DOMAIN agricultural_classes
              IN  /\ (model[i].conf > DisplayThreshold /\ agri) => Drawn(v, i)
                  /\ (model[i].conf <= DisplayThreshold \/ ~agri) => ~Drawn(v, i)
        /\ alert[v] = NoAlert \/ alert[v].confidence > AlertThreshold
        /\ (\A i \in DOMAIN model : model[i].conf <= AlertThreshold) => alert[v] = NoAlert

C7_Witness ==
    \E v \in Viewers :
        /\ pc[v] = "yield" /\ Detected(v) /\ cam_id[v] = 0
        /\ model = <<[cls |-> "person", conf |-> 40], [cls |-> "person", conf |-> 50]>>
        /\ Drawn(v, 1) /\ Drawn(v, 2)
        /\ alert[v] = NoAlert /\ alerts = <<>>

\* C8: a frame with k >= 2 detections above the alert threshold puts k alerts in
\* the store and on the channel.
C8_OneAlertPerDetection ==
    \A v \in Viewers :
        LET k == Cardinality({i \in DOMAIN model :
                     model[i].conf > AlertThreshold
                     /\ Expected(cam_id[v], model[i].cls) \in DOMAIN agricultural_classes})
        IN  (pc[v] = "yield" /\ Detected(v) /\ k >= 2) =>
               /\ Cardinality({j \in DOMAIN alerts :
                     alerts[j].timestamp = alert[v].timestamp}) = k
               /\ Cardinality({j \in DOMAIN emitted :
                     emitted[j].timestamp = alert[v].timestamp}) = k

C10_NoDetector ==
    /\ [](model = NoModel =>
             /\ alerts = <<>> /\ emitted = <<>>
             /\ \A v \in Viewers :
                   /\ alert[v] = NoAlert
                   /\ pc[v] \notin {"append", "emit"}
                   /\ pc[v] = "yield" => frame[v].overlay = "Model Not Loaded")
    /\ [][\A v \in Viewers :
             (model = NoModel /\ pc[v] = "process" /\ pc'[v] \notin {"process", "closed"}
                                                  /\ faults' = faults)
                 => pc'[v] = "yield" /\ frame'[v].pos = frame[v].pos]_vars

C10_Witness ==
    \E v \in Viewers :
        /\ model = NoModel /\ pc[v] = "yield" /\ received[v] # -1
        /\ frame[v].overlay = "Model Not Loaded"

\* C11: when the client of one viewer disconnects, its generate loop alone
\* ends: the step changes nothing of any other viewer, of any camera or of the
\* alert store, and afterwards another viewer's frame is still delivered to it
\* and its next get_frame call still reads the decoder.
C11_DisconnectEndsOneViewer ==
    [][\A v \in Viewers :
          /\ (pc[v] = "yield" /\ pc'[v] = "closed" /\ shutdown' = shutdown) =>
                /\ \A w \in Viewers \ {v} :
                      /\ pc'[w] = pc[w] /\ frame'[w] = frame[w] /\ alert'[w] = alert[w]
                      /\ received'[w] = received[w] /\ raced'[w] = raced[w]
                /\ cameras' = cameras /\ position' = position
                /\ alerts' = alerts /\ emitted' = emitted
          /\ (\E w \in Viewers \ {v} : pc[w] = "closed") =>
                /\ (pc[v] = "yield" /\ pc'[v] = "sleep") => received'[v] = frame[v].pos
                /\ (pc[v] = "loop" /\ pc'[v] # "loop" /\ shutdown' = "up"
                                   /\ cam_id[v] \in cameras) => pc'[v] = "read"]_vars

C11_Witness ==
    \E v, w \in Viewers :
        /\ v # w /\ cam_id[v] = cam_id[w] /\ shutdown = "up"
        /\ pc[v] = "closed"
        /\ pc[w] = "yield" /\ frame[w] # NoFrame /\ received[v] = -1

\* C12: every appended alert is emitted once, at the moment of its append: the
\* emitted alerts are the appended ones in the same order, and at most the one
\* alert appended last is still waiting for its emit, so that no other alert
\* is appended between an append and its emit.
C12_AppendThenEmit ==
    /\ Len(emitted) <= Len(alerts)
    /\ Len(alerts) <= Len(emitted) + 1
    /\ emitted = SubSeq(alerts, 1, Len(emitted))
    /\ \A i, j \in DOMAIN emitted : emitted[i] = emitted[j] => i = j

\* C13: a stream requested for a camera id that is not in the catalog delivers
\* no frame and is closed at once: the generate loop ends when its first
\* get_frame call finds no such camera.
C13_UnknownCameraCloses ==
    /\ [](\A v \in Viewers :
             (pc[v] # "none" /\ cam_id[v] \notin CameraIds) =>
                 received[v] = -1 /\ ~Delivering(v))
    /\ [][\A v \in Viewers :
             (cam_id[v] \notin CameraIds /\ pc[v] = "loop" /\ pc'[v] # "loop")
                 => pc'[v] = "closed"]_vars

\* C14: a cycle whose detector call raises still hands on its frame, encoded and
\* marked "Detection Error", with no alert; the camera stays registered and its
\* decoder where it was, and a later cycle whose detector call returns is
\* annotated from the detections as usual.
C14_DetectorErrorMarked ==
    [][\A v \in Viewers :
          /\ (pc[v] = "process" /\ pc'[v] \notin {"process", "closed"}
                 /\ faults' = faults - 1 /\ lastFault' = "detector") =>
                /\ pc'[v] = "yield"
                /\ frame'[v].pos = frame[v].pos
                /\ frame'[v].overlay = "Detection Error"
                /\ alert'[v] = NoAlert
                /\ cameras' = cameras /\ position' = position /\ doubleFail' = doubleFail
          /\ (pc[v] = "process" /\ pc'[v] \notin {"process", "closed"}
                 /\ faults' = faults /\ lastFault = "detector" /\ model # NoModel) =>
                /\ pc'[v] \in {"append", "yield"}
                /\ frame'[v].pos = frame[v].pos
                /\ frame'[v].overlay = (IF frame'[v].detections # <<>> THEN "Detections" ELSE "")
          /\ (pc[v] = "loop" /\ pc'[v] # "loop" /\ lastFault = "detector"
                 /\ cam_id[v] \in cameras) => pc'[v] = "read"]_vars

C14_Witness ==
    \E v \in Viewers :
        /\ lastFault = "detector" /\ received[v] # -1 /\ shutdown = "up"
        /\ pc[v] = "yield"
        /\ frame[v].overlay = "Detections" /\ alert[v] # NoAlert

\* C15: a cycle whose frame cannot be encoded returns nothing: no frame is sent,
\* its alert is neither appended nor emitted, the catalog and the decoder stay
\* as the read left them, and the next cycle reads, annotates and hands on its
\* frame as usual.
C15_EncodeFailureSkipsCycle ==
    [][\A v \in Viewers :
          /\ (pc[v] = "process" /\ pc'[v] \notin {"process", "closed"}
                 /\ faults' < faults /\ lastFault' = "encode") =>
                /\ pc'[v] = "sleep"
                /\ frame'[v] = NoFrame /\ alert'[v] = NoAlert
                /\ alerts' = alerts /\ emitted' = emitted /\ received' = received
                /\ cameras' = cameras /\ position' = position /\ doubleFail' = doubleFail
          /\ (pc[v] = "process" /\ pc'[v] \notin {"process", "closed"}
                 /\ faults' = faults /\ lastFault = "encode") =>
                /\ pc'[v] \in {"append", "yield"}
                /\ frame'[v].pos = frame[v].pos
          /\ (pc[v] = "loop" /\ pc'[v] # "loop" /\ lastFault = "encode"
                 /\ cam_id[v] \in cameras) => pc'[v] = "read"]_vars

C15_Witness ==
    \E v \in Viewers :
        /\ lastFault = "encode" /\ shutdown = "up" /\ received[v] = -1
        /\ pc[v] = "yield" /\ frame[v] # NoFrame
        /\ alerts = <<alert[v]>> /\ alert[v].timestamp = 1

C17_SingleWriter ==
    \A c \in CameraIds :
        Cardinality({v \in Viewers : cam_id[v] = c /\ pc[v] = "append"}) <= 1

\* C18: the alerts of one camera stand in the store in the order in which its
\* cycles constructed them (timestamp is the clock read at construction).
C18_StoredInOrderRaised ==
    \A i, j \in DOMAIN alerts :
        (i < j /\ alerts[i].camera_id = alerts[j].camera_id)
            => alerts[i].timestamp < alerts[j].timestamp

C20_DenseIds == shutdown = "up" => cameras = 0..(Cardinality(cameras) - 1)

\* C21: with an empty catalog (the directory missing or empty, or no file
\* opening) the application runs, and every get_frame call, for every id,
\* returns (None, None): no decoder is read, no frame is sent, no alert is
\* built, stored or emitted, and the loop goes to its sleep.
C21_EmptyCatalog ==
    /\ []((shutdown = "up" /\ cameras = {}) =>
             /\ alerts = <<>> /\ emitted = <<>> /\ now = 0
             /\ \A v \in Viewers :
                   /\ pc[v] \in {"none", "loop", "sleep"}
                   /\ frame[v] = NoFrame /\ alert[v] = NoAlert /\ received[v] = -1)
    /\ [][\A v \in Viewers :
             (shutdown = "up" /\ cameras = {} /\ pc[v] = "loop" /\ pc'[v] # "loop")
                 => /\ pc'[v] = "sleep"
                    /\ position' = position /\ cameras' = cameras]_vars

C21_Witness ==
    /\ shutdown = "up" /\ cameras = {}
    /\ \E v \in Viewers : pc[v] = "sleep" /\ cam_id[v] = 0

\* C22: a read alone on an open handle that stands at the end of the file fails
\* and the same cycle rewinds the handle to frame 0 and reads once more, and
\* only once: if that read succeeds the cycle goes on with frame 0 of the
\* source, and if it fails the cycle ends with no frame and no alert and
\* nothing stored or emitted.
C22_RewindAndRetryOnce ==
    [][\A v \in Viewers :
          cam_id[v] \in CameraIds =>
             LET c == cam_id[v]
                 alone == ~raced[v] /\ ~Released
             IN  /\ (pc[v] = "read" /\ pc'[v] \notin {"read", "closed"}
                        /\ alone /\ position[c] = FrameCount) => pc'[v] = "seek"
                 /\ (pc[v] = "seek" /\ pc'[v] \notin {"seek", "closed"} /\ ~Released) =>
                        pc'[v] = "retry" /\ position'[c] = 0
                 /\ (pc[v] = "retry" /\ pc'[v] \notin {"retry", "closed"}) =>
                        \/ /\ pc'[v] = "process"
                           /\ alone => (frame'[v].pos = 0 /\ position'[c] = 1)
                        \/ /\ pc'[v] = "sleep"
                           /\ frame'[v] = NoFrame /\ alert'[v] = NoAlert
                           /\ alerts' = alerts /\ emitted' = emitted
                           /\ received' = received]_vars

C22_Witness ==
    \E v \in Viewers :
        /\ shutdown = "up" /\ lastFault = "none" /\ cam_id[v] = 0
        /\ received[v] = FrameCount - 1
        /\ pc[v] = "process" /\ frame[v].pos = 0 /\ position[0] = 1

\* C23: while the process serves, every registered camera has a task that
\* runs its next cycle without waiting for a viewer: a task of that camera
\* that is neither absent, nor ended, nor suspended at the yield of a frame
\* until the viewer takes it.
C23_CameraRunsWithoutViewers ==
    \A c \in cameras :
        shutdown = "up" =>
            \E v \in Viewers :
                cam_id[v] = c /\ pc[v] \notin {"none", "closed", "yield"}

\* The boxes of the frame above the display threshold.
AboveDisplay == {i \in DOMAIN model : model[i].conf > DisplayThreshold}

\* C24 as claimed: every detection above 0.3 is drawn and the count written
\* on the frame is the number of detections above 0.3 (a frame without any
\* carrying no count).
C24_AllDisplayedCounted ==
    \A v \in Viewers : Detected(v) =>
        /\ \A i \in AboveDisplay : Drawn(v, i)
        /\ CountOverlay(frame[v].detections) =
               (IF AboveDisplay = {} THEN -1 ELSE Cardinality(AboveDisplay))

\* C24 as amended: the detections drawn are those above 0.3 whose label after
\* the override is in the agricultural table, each once; the count written is
\* their number, and no count is written when there is none.
C24_AgriculturalDisplayedCounted ==
    \A v \in Viewers : Detected(v) =>
        LET shown == {i \in AboveDisplay :
                         Expected(cam_id[v], model[i].cls) \in DOMAIN agricultural_classes}
        IN  /\ \A i \in DOMAIN model : Drawn(v, i) <=> i \in shown
            /\ Len(frame[v].detections) = Cardinality(shown)
            /\ CountOverlay(frame[v].detections) =
                   (IF shown = {} THEN -1 ELSE Cardinality(shown))
            /\ (frame[v].overlay = "Detections") <=> (shown # {})

C24_Witness ==
    \E v \in Viewers :
        /\ pc[v] = "yield" /\ Detected(v) /\ cam_id[v] = 0
        /\ model = <<[cls |-> "person", conf |-> 40], [cls |-> "chair", conf |-> 60]>>
        /\ Drawn(v, 1) /\ ~Drawn(v, 2)
        /\ CountOverlay(frame[v].detections) = 1

\* C25: once release() has released the decoders, no frame is sent to a viewer
\* and no alert is stored or emitted any more, and the handles stay released.
C25_StoppedIsTerminal ==
    [][Released =>
          /\ Released'
          /\ received' = received
          /\ alerts' = alerts /\ emitted' = emitted]_vars

\* C26: the resize comes before the detection in a cycle: the frame read is
\* never handed to the Detector before line 140 has looked at its width; a
\* frame wider than 1280 leaves the resize with both sides multiplied by
\* 1280 / width and truncated (the floating-point product may fall one below
\* the exact quotient), a frame of width <= 1280 leaves it as it was, and the
\* frame the Detector is called on is the resized one, never wider than 1280.
C26_ResizeBeforeDetection ==
    [][/\ stage = "read" => stage' # "detecting"
       /\ (stage = "read" /\ shape.width <= MaxWidth) => shape' = shape
       /\ (stage = "read" /\ shape.width > MaxWidth) =>
             /\ shape'.width \in {MaxWidth - 1, MaxWidth}
             /\ LET exact == (shape.height * MaxWidth) \div shape.width
                IN  shape'.height \in {exact - 1, exact}
       /\ stage' = "detecting" =>
             /\ shape' = shape
             /\ shape'.width <= MaxWidth]_vars

\* A frame 2139 wide, whose scale 1280 / 2139 is not exact, has reached the
\* Detector 1279 wide.
C26_Witness == stage = "detecting" /\ shape.width = MaxWidth - 1

\* C27: no cap.read() or cap.set() is called on a handle once release() has
\* released it: a thread enters a call of lines 128-134 only while the
\* handler is not released.
C27_NoUseAfterRelease ==
    [][\A v \in Viewers :
          (pc'[v] \in InFlight /\ pc'[v] # pc[v]) => ~Released]_vars

\* C28: one end of stream causes one rewind: a thread's cap.set(POS_FRAMES, 0)
\* finds the handle at the end of the source, never at a frame of a pass that
\* another thread's rewind has already begun; stated for runs without decode
\* faults and while the handler is not released.
C28_OneRewindPerEnd ==
    [][\A v \in Viewers :
          (pc[v] = "seek" /\ pc'[v] = "retry" /\ faults = MaxFaults /\ ~Released)
              => position[cam_id[v]] = FrameCount]_vars

\* C29: the store and the emit log change only by the alert of a thread that
\* holds the encoded frame of its cycle and has not handed it on yet; when a
\* frame that came with an alert is handed to the viewer, the alert has been
\* appended and emitted; and the alert constructed in a cycle whose encoding
\* fails is in no thread's hands and never reaches the store.
C29_AlertOnlyWithEncodedFrame ==
    /\ [][/\ (alerts' # alerts \/ emitted' # emitted) =>
                \E v \in Viewers :
                   /\ pc[v] \in {"append", "emit"}
                   /\ frame[v] # NoFrame /\ alert[v] # NoAlert
                   /\ frame'[v] = frame[v] /\ received' = received
                   /\ alerts' \in {alerts, Append(alerts, alert[v])}
                   /\ emitted' \in {emitted, Append(emitted, alert[v])}
          /\ \A v \in Viewers :
                (pc[v] = "yield" /\ pc'[v] = "sleep" /\ alert[v] # NoAlert) =>
                    /\ \E i \in DOMAIN alerts : alerts[i] = alert[v]
                    /\ \E i \in DOMAIN emitted : emitted[i] = alert[v]
          /\ \A v \in Viewers :
                (pc[v] = "process" /\ lastFault' = "encode" /\ faults' < faults) =>
                    /\ alert'[v] = NoAlert /\ pc'[v] = "sleep"
                    /\ alerts' = alerts /\ emitted' = emitted]_vars
    /\ [](\A i \in DOMAIN alerts : alerts[i].timestamp < now)
    /\ [](\A v \in Viewers : alert[v] # NoAlert => alert[v].timestamp < now)

\* An alert was constructed in a cycle whose encoding failed: the clock has
\* moved on, the loop sleeps with empty hands and nothing was stored or emitted.
C29_Witness ==
    \E v \in Viewers :
       /\ lastFault = "encode" /\ pc[v] = "sleep"
       /\ now > 0 /\ alerts = <<>> /\ emitted = <<>>
       /\ alert[v] = NoAlert /\ frame[v] = NoFrame

\* The alert a carries a label of the agricultural table with the table's
\* message, and a confidence above the alert threshold.
AgriculturalAlert(a) ==
    /\ \E label \in DOMAIN agricultural_classes :
          a.type = label \o "_detected" /\ a.message = agricultural_classes[label]
    /\ a.confidence > AlertThreshold

\* C30: every alert, in a cycle's hands or in the store, has a label of the
\* agricultural table after the override and a confidence above 0.5; the alert
\* of a cycle names the camera the cycle read, and one of the detections drawn
\* on the cycle's frame has its label and confidence and comes from a box the
\* detector reported with that confidence.  A box whose label after the
\* override is outside the table is not among the detections drawn, is not
\* counted in the overlay, and the alert does not carry its label.
C30_AlertsAgriculturalAndDrawn ==
    /\ \A i \in DOMAIN alerts : AgriculturalAlert(alerts[i]) /\ alerts[i].camera_id \in CameraIds
    /\ \A i \in DOMAIN emitted : AgriculturalAlert(emitted[i])
    /\ \A v \in Viewers : (Delivering(v) /\ alert[v] # NoAlert) =>
          /\ AgriculturalAlert(alert[v])
          /\ alert[v].camera_id = cam_id[v]
          /\ \E j \in DOMAIN frame[v].detections :
                LET d == frame[v].detections[j]
                IN  /\ alert[v].type = d.label \o "_detected"
                    /\ alert[v].confidence = d.confidence
                    /\ model[d.box].conf = d.confidence
                    /\ LabelFor(cam_id[v], model[d.box].cls) = d.label
    /\ \A v \in Viewers : Detected(v) =>
          LET outside == {i \in DOMAIN model :
                             LabelFor(cam_id[v], model[i].cls) \notin DOMAIN agricultural_classes}
          IN  /\ \A i \in outside :
                    /\ ~Drawn(v, i)
                    /\ alert[v].type # LabelFor(cam_id[v], model[i].cls) \o "_detected"
              /\ \A j \in DOMAIN frame[v].detections :
                    frame[v].detections[j].label \in DOMAIN agricultural_classes
              /\ Len(frame[v].detections) <= Len(model) - Cardinality(outside)
              /\ CountOverlay(frame[v].detections) <= Len(model) - Cardinality(outside)

\* On camera 0 a chair and a person, both at 0.6: the person is drawn, counted
\* and alerted, the chair is none of these.
C30_Witness ==
    \E v \in Viewers :
        /\ pc[v] = "yield" /\ Detected(v) /\ cam_id[v] = 0
        /\ model = <<[cls |-> "chair", conf |-> 60], [cls |-> "person", conf |-> 60]>>
        /\ ~Drawn(v, 1) /\ Drawn(v, 2)
        /\ CountOverlay(frame[v].detections) = 1
        /\ alert[v].type = "person_detected" /\ alert[v].camera_id = 0
        /\ alerts = <<alert[v]>>

\* The places of a generate loop from its call of get_frame to the return.
InGetFrame == {"loop", "process"} \cup InFlight

\* C31: no exception leaves get_frame: a generate loop inside a call ends only
\* with the process; a call returns a frame, with an alert or with none, or
\* (None, None), also when the body of the try raised; and a call for an id
\* that is not in the catalog returns (None, None) with every decoder position
\* and the catalog as they were.
C31_GetFrameNeverRaises ==
    [][\A v \in Viewers :
          /\ (pc[v] \in InGetFrame /\ pc'[v] = "closed") =>
                (shutdown # "exited" /\ shutdown' = "exited")
          /\ (pc[v] \in InGetFrame /\ pc'[v] \notin InGetFrame \cup {"closed"}) =>
                \/ /\ pc'[v] \in {"append", "yield"}
                   /\ frame'[v] # NoFrame
                   /\ (pc'[v] = "append") <=> (alert'[v] # NoAlert)
                \/ /\ pc'[v] = "sleep"
                   /\ frame'[v] = NoFrame /\ alert'[v] = NoAlert
          /\ (pc[v] = "process" /\ pc'[v] # "process" /\ throws' < throws) =>
                /\ pc'[v] = "sleep" /\ frame'[v] = NoFrame /\ alert'[v] = NoAlert
                /\ alerts' = alerts /\ emitted' = emitted /\ received' = received
          /\ (pc[v] = "loop" /\ ~Registered(cam_id[v]) /\ pc'[v] \notin {"loop", "closed"}) =>
                /\ pc'[v] = "sleep" /\ frame'[v] = NoFrame /\ alert'[v] = NoAlert
                /\ position' = position /\ cameras' = cameras]_vars

\* The resize of a frame of a registered camera raised; the call returned
\* (None, None) and the loop sleeps until its next cycle.
C31_Witness ==
    \E v \in Viewers :
        /\ lastFault = "exception" /\ throws < MaxThrows
        /\ pc[v] = "sleep" /\ Registered(cam_id[v]) /\ shutdown = "up"
        /\ frame[v] = NoFrame /\ alert[v] = NoAlert

\* C32: release() calls cap.release() on every handle of the catalog, going on
\* to the next handle when one call raises, so that no handle of the catalog
\* is left open unless its own cap.release() raised; it touches no handle
\* outside the catalog; afterwards the catalog is empty; and a second
\* release(), which finds the catalog empty, has no handle to release, so that
\* nothing can raise, and leaves handles and catalog as they are.
C32_ReleaseAllIdempotent ==
    /\ [][(shutdown = "up" /\ shutdown' = "released") =>
             /\ \A c \in cameras : caps'[c] \in {"released", "broken"}
             /\ Cardinality({c \in cameras : caps'[c] = "broken"}) = throws - throws'
             /\ \A c \in CameraIds \ cameras : caps'[c] = caps[c]]_vars
    /\ [](shutdown \in {"cleared", "exited"} =>
             /\ cameras = {}
             /\ \A c \in CameraIds : caps[c] # "open"
             /\ \A bad \in SUBSET cameras :
                   bad = {} /\ ReleaseCaps(caps, cameras, bad) = caps)

\* release() has run on a catalog of two cameras: releasing the first handle
\* raised, the second handle is released, the catalog is empty.
C32_Witness ==
    /\ shutdown = "cleared" /\ cameras = {}
    /\ caps[0] = "broken" /\ caps[1] = "released"

\* C33: the weather data a call of get_weather(lat, lon) returns was fetched
\* for that same (lat, lon).
C33_SameLocation ==
    served.data # NoWeather =>
        served.data.lat = served.lat /\ served.data.lon = served.lon

\* C34: the cache changes only in a lookup that got a 200 response, which
\* stores the data it returns with the time of the call; a lookup that fails
\* (no API key, an exception, another status) returns None and leaves data and
\* timestamp as they were; and a call made less than 3600 seconds after the
\* last successful lookup returns the cached data without a request to the
\* API and without touching the cache.
C34_CacheWrittenOnSuccess ==
    [][/\ weather_cache' # weather_cache =>
             /\ served'.n = served.n + 1
             /\ served'.outcome = "ok" /\ served'.requested
             /\ served'.data # NoWeather
             /\ weather_cache' = [data |-> served'.data, last_updated |-> clock]
       /\ (served'.n = served.n + 1 /\ served'.outcome \in {"no_key", "exception", "status"}) =>
             /\ served'.data = NoWeather
             /\ weather_cache' = weather_cache
       /\ (served'.n = served.n + 1 /\ weather_cache.last_updated # NeverUpdated
              /\ clock - weather_cache.last_updated < CacheTime) =>
             /\ served'.outcome = "cached" /\ ~served'.requested
             /\ served'.data = weather_cache.data /\ served'.data # NoWeather
             /\ weather_cache' = weather_cache
       /\ (served'.n = served.n + 1 /\ served'.outcome = "cached") =>
             clock - weather_cache.last_updated < CacheTime]_vars

\* A lookup made 3600 seconds or more after the last successful one got a
\* response that was not a 200: it returned None and the cache still holds the
\* old data with its old timestamp.
C34_Witness ==
    /\ served.outcome = "status" /\ served.data = NoWeather
    /\ weather_cache.data # NoWeather
    /\ clock - weather_cache.last_updated >= CacheTime

====
